---- MODULE Spec2Model ----
(***************************************************************************)
(* A model of the script launcher of python_runner: the two main windows   *)
(* (Main_Runner.py and Main_Runner_Balmas.py), their dynamic form, the     *)
(* QProcess they supervise and the slots connected to it.                   *)
(*                                                                         *)
(* Text is a sequence of one-character strings, so that strip(),           *)
(* splitlines() and the PROGRESS regular expression are computed as the    *)
(* code computes them.                                                      *)
(***************************************************************************)
EXTENDS Integers, Sequences, FiniteSets, TLC

VARIABLES
    variant,   \* which program runs: "base" (Main_Runner.py) or "balmas" (Main_Runner_Balmas.py)
    win,       \* the fields of MainWindow (widgets' observable state included) and
               \* events, the run states and progress texts set_status has shown
               \* since the last accepted start or reset
    form,      \* DynamicForm.bindings: one [schema, widget] per field
    procs      \* the QProcess objects created so far, with the OS process behind each

vars == <<variant, win, form, procs>>

(***************************************************************************)
(* Bounds of the model.                                                    *)
(***************************************************************************)
\* QProcess objects that exist at a time and can still act on the window: the
\* one self.proc names and those that are still running
MaxProcs == 2

(***************************************************************************)
(* Characters and strings                                                  *)
(***************************************************************************)
\* the whitespace str.strip() and the regex class \s remove (those the model uses)
Whitespace == {" ", "\t", "\n"}

Digits == {"0", "1", "2", "3", "4", "5", "6", "7", "8", "9"}

DigitValue(c) ==
    CASE c = "0" -> 0 [] c = "1" -> 1 [] c = "2" -> 2 [] c = "3" -> 3 [] c = "4" -> 4
      [] c = "5" -> 5 [] c = "6" -> 6 [] c = "7" -> 7 [] c = "8" -> 8 [] c = "9" -> 9

\* re.IGNORECASE: letters compare by their upper-case form
ToUpper(c) ==
    CASE c = "p" -> "P" [] c = "r" -> "R" [] c = "o" -> "O" [] c = "g" -> "G"
      [] c = "e" -> "E" [] c = "s" -> "S" [] c = "x" -> "X" [] OTHER -> c

\* number of leading characters of s that belong to set
RECURSIVE LeadingRun(_, _)
LeadingRun(s, set) ==
    IF s = <<>> \/ Head(s) \notin set THEN 0 ELSE 1 + LeadingRun(Tail(s), set)

RECURSIVE Reverse(_)
Reverse(s) == IF s = <<>> THEN <<>> ELSE Append(Reverse(Tail(s)), Head(s))

Drop(s, n) == SubSeq(s, n + 1, Len(s))

\* str.strip()
Strip(s) ==
    LET a == Drop(s, LeadingRun(s, Whitespace))
    IN  SubSeq(a, 1, Len(a) - LeadingRun(Reverse(a), Whitespace))

\* int() of a sequence of decimal digits
RECURSIVE ParseInt(_)
ParseInt(ds) ==
    IF ds = <<>> THEN 0 ELSE 10 * ParseInt(SubSeq(ds, 1, Len(ds) - 1)) + DigitValue(ds[Len(ds)])

\* index of the first "\n" of s, 0 when there is none
RECURSIVE FirstNewline(_)
FirstNewline(s) ==
    IF s = <<>> THEN 0
    ELSE IF Head(s) = "\n" THEN 1
    ELSE LET r == FirstNewline(Tail(s)) IN IF r = 0 THEN 0 ELSE r + 1

\* str.splitlines(): the lines of s without their terminators; a final
\* unterminated fragment is a line too, a final terminator adds no empty line
RECURSIVE SplitLines(_)
SplitLines(s) ==
    IF s = <<>> THEN <<>>
    ELSE LET i == FirstNewline(s)
         IN  IF i = 0 THEN <<s>>
             ELSE <<SubSeq(s, 1, i - 1)>> \o SplitLines(Drop(s, i))

ProgressToken == <<"P", "R", "O", "G", "R", "E", "S", "S">>

NoMatch == -1

\* re.match(r"^\s*PROGRESS\s+(\d{1,3})\s*$", line.strip(), re.IGNORECASE):
\* the integer value of group 1, or NoMatch
MatchProgress(line) ==
    LET s    == Strip(line)
        a    == Drop(s, LeadingRun(s, Whitespace))
        tok  == SubSeq(a, 1, Len(ProgressToken))
        b    == Drop(a, Len(ProgressToken))
        gap  == LeadingRun(b, Whitespace)
        c    == Drop(b, gap)
        nd   == LeadingRun(c, Digits)
        rest == Drop(c, nd)
    IN  IF /\ Len(a) >= Len(ProgressToken)
           /\ \A i \in 1..Len(ProgressToken) : ToUpper(tok[i]) = ProgressToken[i]
           /\ gap >= 1
           /\ nd >= 1 /\ nd <= 3
           /\ LeadingRun(rest, Whitespace) = Len(rest)
        THEN ParseInt(SubSeq(c, 1, nd))
        ELSE NoMatch

Max(a, b) == IF a >= b THEN a ELSE b
Min(a, b) == IF a <= b THEN a ELSE b

\* val = max(0, int(m.group(1))), without the upper bound (a faulty variant, tried against C37)
ClampProgressBelow(n) == Max(0, n)

\* the value taken as it is written, without the bounds (a faulty variant, tried against C8)
UnclampedProgress(n) == n

\* val = max(0, min(100, int(m.group(1))))
ClampProgress(n) == Max(0, Min(100, n))

(***************************************************************************)
(* Field schemas and the SCRIPTS tables                                    *)
(***************************************************************************)
\* one entry of an "args_schema" list; the keys a dict leaves out take the
\* value sch.get() falls back to (hasDefault says whether "default" is there)
Field(key, label, type, required) ==
    [key |-> key, label |-> label, type |-> type, required |-> required,
     hasDefault |-> FALSE, defText |-> <<>>, defNum |-> 0, defBool |-> FALSE,
     min |-> -1000000000, max |-> 1000000000, options |-> <<>>]

\* flags of the schemas, character by character
K_user       == <<"-", "-", "u", "s", "e", "r">>
K_a          == <<"-", "-", "a">>
K_b          == <<"-", "-", "b">>
K_limit      == <<"-", "-", "l", "i", "m", "i", "t">>
K_epsilon    == <<"-", "-", "e", "p", "s", "i", "l", "o", "n">>
K_profile    == <<"-", "-", "p", "r", "o", "f", "i", "l", "e">>
K_find       == <<"-", "-", "f", "i", "n", "d", "_", "f", "a", "m", "i", "l", "y">>
K_inputlog   == <<"-", "-", "i", "n", "p", "u", "t", "l", "o", "g">>
K_SN         == <<"-", "-", "S", "N">>
K_Limit2ids  == <<"-", "-", "L", "i", "m", "i", "t", "2", "i", "d", "s">>
K_outlog     == <<"-", "-", "o", "u", "t", "l", "o", "g">>
K_hy         == <<"-", "-", "h", "y">>
K_log        == <<"-", "-", "l", "o", "g">>
K_mode       == <<"-", "-", "m", "o", "d", "e">>
T_gui        == <<"g", "u", "i">>
T_default    == <<"d", "e", "f", "a", "u", "l", "t">>
T_extended   == <<"e", "x", "t", "e", "n", "d", "e", "d">>

\* sys.executable, and the "path" entries of SCRIPTS, character by character
PYTHON == <<"p", "y", "t", "h", "o", "n">>
P_add_numbers == <<"a", "d", "d", "_", "n", "u", "m", "b", "e", "r", "s", ".", "p", "y">>
P_script_b == <<"s", "c", "r", "i", "p", "t", "_", "b", ".", "p", "y">>
P_script_c == <<"s", "c", "r", "i", "p", "t", "_", "c", ".", "p", "y">>
P_find_family_ids == <<"f", "i", "n", "d", "_", "f", "a", "m", "i", "l", "y", "_", "i", "d", "s", ".", "p", "y">>
P_limit2ids == <<"l", "i", "m", "i", "t", "2", "i", "d", "s", ".", "p", "y">>
P_merge_logs == <<"m", "e", "r", "g", "e", "_", "l", "o", "g", "s", ".", "p", "y">>
P_Example == <<"E", "x", "a", "m", "p", "l", "e", ".", "p", "y">>

\* log_arg_style "positional"
Positional == <<"p", "o", "s", "i", "t", "i", "o", "n", "a", "l">>

\* SCRIPTS of Main_Runner.py
ScriptsBase == <<
    [name |-> "Add numbers", path |-> P_add_numbers, log_arg_style |-> K_log,
     args_schema |-> <<
        Field(K_user, "User", "text", TRUE),
        [Field(K_a, "first number", "int", TRUE) EXCEPT !.min = -1000000, !.max = 1000000],
        [Field(K_b, "second number", "int", TRUE) EXCEPT !.min = -1000000, !.max = 1000000] >>],
    [name |-> "Script B", path |-> P_script_b, log_arg_style |-> Positional,
     args_schema |-> <<
        [Field(K_limit, "Limit", "int", TRUE) EXCEPT
            !.hasDefault = TRUE, !.defNum = 10, !.min = 1, !.max = 1000],
        \* a real is held in millionths (QDoubleSpinBox.setDecimals(6))
        [Field(K_epsilon, "Epsilon", "float", FALSE) EXCEPT
            !.hasDefault = TRUE, !.defNum = 100000, !.min = 0, !.max = 1000000] >>],
    [name |-> "Script C", path |-> P_script_c, log_arg_style |-> K_log,
     args_schema |-> <<
        [Field(K_profile, "Profile", "select", TRUE) EXCEPT
            !.options = <<T_default, T_extended>>] >>] >>

\* SCRIPTS of Main_Runner_Balmas.py
ScriptsBalmas == <<
    [name |-> "Find Family", path |-> P_find_family_ids, log_arg_style |-> K_log,
     args_schema |-> <<
        Field(K_find, "ids", "string", TRUE),
        Field(K_inputlog, "Input Log", "file_open", FALSE),
        Field(K_SN, "SN", "checkbox", FALSE) >>],
    [name |-> "Limit2ids", path |-> P_limit2ids, log_arg_style |-> K_log,
     args_schema |-> <<
        Field(K_Limit2ids, "ids", "string", TRUE),
        Field(K_outlog, "out log", "file_open", FALSE),
        Field(K_hy, "hy", "file_open", FALSE) >>],
    [name |-> "merge_logs", path |-> P_merge_logs, log_arg_style |-> K_log,
     args_schema |-> <<>>],
    [name |-> "Test Script", path |-> P_Example, log_arg_style |-> K_log,
     args_schema |-> << Field(K_log, "Log path", "text", FALSE) >>] >>

SCRIPTS(v) == IF v = "base" THEN ScriptsBase ELSE ScriptsBalmas

(***************************************************************************)
(* DynamicForm                                                             *)
(***************************************************************************)
\* a widget of the form: its class and the part of its state the code reads
Widget(cls) ==
    [cls |-> cls, text |-> <<>>, num |-> 0, lo |-> 0, hi |-> 0,
     checked |-> FALSE, items |-> <<>>, index |-> -1]

\* QSpinBox.setValue / QDoubleSpinBox.setValue: the value is bound to [minimum, maximum]
SpinSetValue(w, n) == [w EXCEPT !.num = Max(w.lo, Min(w.hi, n))]

\* index (from 0) of text t among items, -1 when it is not there (QComboBox.findText)
FindText(items, t) ==
    IF \E i \in 1..Len(items) : items[i] = t
    THEN (CHOOSE i \in 1..Len(items) : items[i] = t /\ \A j \in 1..(i - 1) : items[j] # t) - 1
    ELSE -1

\* DynamicForm._make_widget; v is the program variant (file pickers exist in
\* Main_Runner_Balmas.py only, elsewhere the type falls to the QLineEdit fallback)
MakeWidget(v, sch) ==
    LET t == sch.type IN
    CASE t = "text" ->
            [Widget("QLineEdit") EXCEPT !.text = IF sch.hasDefault THEN sch.defText ELSE <<>>]
      [] t = "int" ->
            SpinSetValue([Widget("QSpinBox") EXCEPT !.lo = sch.min, !.hi = sch.max], sch.defNum)
      \* (the widest range here is a thousand either way, wider than any value entered)
      [] t = "float" ->
            SpinSetValue([Widget("QDoubleSpinBox") EXCEPT !.lo = sch.min, !.hi = sch.max], sch.defNum)
      [] t = "select" ->
            LET d == IF sch.hasDefault THEN FindText(sch.options, sch.defText) ELSE -1
            IN  [Widget("QComboBox") EXCEPT
                    !.items = sch.options,
                    !.index = IF d >= 0 THEN d ELSE IF sch.options = <<>> THEN -1 ELSE 0]
      [] t = "checkbox" ->
            [Widget("QCheckBox") EXCEPT !.checked = sch.hasDefault /\ sch.defBool]
      [] t \in {"file_open", "file_save"} /\ v = "balmas" -> Widget("FilePicker")
      [] OTHER -> Widget("QLineEdit")

\* DynamicForm.build: clear(), then one binding per field of the schema, in order
Build(v, schema_list) ==
    [i \in 1..Len(schema_list) |->
        [schema |-> schema_list[i], widget |-> MakeWidget(v, schema_list[i])]]

\* the text as typed, without strip() (a faulty variant, tried against C34)
TextValueOfAsTyped(w) ==
    CASE w.cls \in {"QLineEdit", "FilePicker"} -> w.text
      [] w.cls = "QComboBox" -> IF w.index >= 0 THEN w.items[w.index + 1] ELSE <<>>
      [] OTHER -> <<>>

\* DynamicForm._value_of for the widgets whose value is text:
\* QLineEdit.text().strip(), FilePicker.text() (itself le.text().strip()),
\* QComboBox.currentText()
TextValueOf(w) ==
    CASE w.cls \in {"QLineEdit", "FilePicker"} -> Strip(w.text)
      [] w.cls = "QComboBox" -> IF w.index >= 0 THEN w.items[w.index + 1] ELSE <<>>
      [] OTHER -> <<>>

\* "missing" decided on the text as typed, without strip() (a faulty variant, tried against C10)
IsMissingAsTyped(w) ==
    \/ w.cls \in {"QLineEdit", "FilePicker"} /\ w.text = <<>>
    \/ w.cls = "QComboBox" /\ TextValueOf(w) = <<>>

\* the condition "missing" of validate_and_collect: a spin box always has a
\* value (val is never None), a check box is never tested
IsMissing(w) ==
    \/ w.cls = "FilePicker" /\ TextValueOf(w) = <<>>
    \/ w.cls = "QLineEdit" /\ TextValueOf(w) = <<>>
    \/ w.cls = "QComboBox" /\ TextValueOf(w) = <<>>

\* DynamicForm.validate_and_collect: the labels of the messages
\* "'<label>' is required.", in binding order (<<>> where the code returns None)
RECURSIVE ValidateAndCollect(_)
ValidateAndCollect(bindings) ==
    IF bindings = <<>> THEN <<>>
    ELSE LET b == Head(bindings)
         IN  (IF b.schema.required /\ IsMissing(b.widget) THEN <<b.schema.label>> ELSE <<>>)
             \o ValidateAndCollect(Tail(bindings))

\* str() of a non-negative integer, digit by digit
DigitChar(d) ==
    CASE d = 0 -> "0" [] d = 1 -> "1" [] d = 2 -> "2" [] d = 3 -> "3" [] d = 4 -> "4"
      [] d = 5 -> "5" [] d = 6 -> "6" [] d = 7 -> "7" [] d = 8 -> "8" [] d = 9 -> "9"

RECURSIVE NatStr(_)
NatStr(n) == IF n < 10 THEN <<DigitChar(n)>> ELSE Append(NatStr(n \div 10), DigitChar(n % 10))

\* str(int)
IntStr(n) == IF n < 0 THEN <<"-">> \o NatStr(-n) ELSE NatStr(n)

\* the digits of a fraction given in millionths, without trailing zeros
RECURSIVE FracDigits(_, _)
FracDigits(f, width) ==
    IF width = 0 \/ f = 0 THEN <<>>
    ELSE LET unit == 10 ^ (width - 1)
         IN  <<DigitChar(f \div unit)>> \o FracDigits(f % unit, width - 1)

\* str(float) of a value held in millionths: "0.1", "1.0", "0.25" (values of
\* magnitude 0.0001 and more, which Python prints without an exponent)
FloatStr(n) ==
    LET m    == IF n < 0 THEN -n ELSE n
        frac == FracDigits(m % 1000000, 6)
    IN  (IF n < 0 THEN <<"-">> ELSE <<>>) \o NatStr(m \div 1000000) \o <<".">>
        \o (IF frac = <<>> THEN <<"0">> ELSE frac)

\* str(self._value_of(w)) for the widgets build_cli_args passes with a value
ValueStr(w) ==
    CASE w.cls = "QSpinBox" -> IntStr(w.num)
      [] w.cls = "QDoubleSpinBox" -> FloatStr(w.num)
      [] w.cls = "QCheckBox" -> IF w.checked THEN <<"T", "r", "u", "e">> ELSE <<"F", "a", "l", "s", "e">>
      [] OTHER -> TextValueOf(w)

\* a tick passed like any other value, the flag followed by str(val) (a faulty variant, tried against C12)
FieldArgsValued(b) ==
    IF b.schema.key # <<>> THEN <<b.schema.key, ValueStr(b.widget)>> ELSE <<>>

\* a field whose key is empty passed as a bare value (a faulty variant, tried against C14)
FieldArgsBareValue(b) ==
    IF b.schema.type = "checkbox"
    THEN (IF b.schema.key # <<>> /\ b.widget.checked THEN <<b.schema.key>> ELSE <<>>)
    ELSE (IF b.schema.key # <<>> THEN <<b.schema.key>> ELSE <<>>) \o <<ValueStr(b.widget)>>

\* a field whose value is the empty string left out, flag and value (a faulty
\* variant, tried against C33)
FieldArgsOmitEmpty(b) ==
    IF b.schema.key # <<>> /\ b.schema.type # "checkbox"
    THEN (IF ValueStr(b.widget) = <<>> THEN <<>> ELSE <<b.schema.key, ValueStr(b.widget)>>)
    ELSE IF b.schema.key # <<>> /\ b.schema.type = "checkbox" /\ b.widget.checked
    THEN <<b.schema.key>>
    ELSE <<>>

\* one binding's contribution to build_cli_args
FieldArgs(b) ==
    IF b.schema.key # <<>> /\ b.schema.type # "checkbox"
    THEN <<b.schema.key, ValueStr(b.widget)>>
    ELSE IF b.schema.key # <<>> /\ b.schema.type = "checkbox" /\ b.widget.checked
    THEN <<b.schema.key>>
    ELSE <<>>

\* DynamicForm.build_cli_args
RECURSIVE BuildCliArgs(_)
BuildCliArgs(bindings) ==
    IF bindings = <<>> THEN <<>>
    ELSE FieldArgs(Head(bindings)) \o BuildCliArgs(Tail(bindings))

(***************************************************************************)
(* MainWindow: the slots, as functions of the window's fields              *)
(***************************************************************************)
\* the text of lbl_status: "Ready", "Selected: <name>" (arg = row),
\* "Running...", "<arg>%", "Finished (code <arg>)", "Error", "Cancelled"
Status(tag, arg) == [tag |-> tag, arg |-> arg]

None == 0

\* MainWindow.set_status; events keeps the texts shown since the last start
\* in the behaviours that record them (tracing)
SetStatus(w, st) ==
    [w EXCEPT !.lbl_status = st, !.events = IF w.tracing THEN Append(@, st) ELSE @]

\* "if self.progress.maximum() == 0: self.progress.setRange(0, 100)"
RestoreRange(w) == IF w.pmax = 0 THEN [w EXCEPT !.pmax = 100] ELSE w

\* the body of the loop of on_proc_output for one line
OnLine(w, line) ==
    LET m == MatchProgress(line)
    IN  IF m = NoMatch THEN w
        ELSE LET val == ClampProgress(m)
             IN  SetStatus([RestoreRange(w) EXCEPT !.pval = val], Status("Pct", val))

\* one match per chunk, on its last line only (a faulty variant, tried against C9)
OnLastLine(w, lines) ==
    IF lines = <<>> THEN w ELSE OnLine(w, lines[Len(lines)])

RECURSIVE OnLines(_, _)
OnLines(w, lines) ==
    IF lines = <<>> THEN w ELSE OnLines(OnLine(w, Head(lines)), Tail(lines))

\* on_proc_output showing the chunk in place of the text shown so far
\* (a faulty variant, tried against C30)
OnProcOutputReplacing(w, data) ==
    IF data = <<>> THEN w
    ELSE OnLines([w EXCEPT !.txt_log = data], SplitLines(data))

\* MainWindow.on_proc_output, given what readAllStandardOutput() returned
OnProcOutput(w, data) ==
    IF data = <<>> THEN w
    ELSE OnLines([w EXCEPT !.txt_log = @ \o data], SplitLines(data))

\* on_proc_finished without "self.progress.setValue(100)" (a faulty variant, tried against C6)
OnProcFinishedAsObserved(w, exitCode) ==
    [SetStatus(RestoreRange(w), Status("Finished", exitCode))
        EXCEPT !.btn_run = TRUE, !.btn_cancel = FALSE, !.list_scripts = TRUE]

\* on_proc_finished taking an exit code other than 0 for an error
\* (a faulty variant, tried against C18)
OnProcFinishedFailing(w, exitCode) ==
    [SetStatus([RestoreRange(w) EXCEPT !.pval = 100],
               IF exitCode = 0 THEN Status("Finished", 0) ELSE Status("Error", 0))
        EXCEPT !.btn_run = TRUE, !.btn_cancel = FALSE, !.list_scripts = TRUE]

\* on_proc_finished without "self.btn_cancel.setEnabled(False)"
\* (a faulty variant, tried against C20)
OnProcFinishedCancelLeft(w, exitCode) ==
    [SetStatus([RestoreRange(w) EXCEPT !.pval = 100], Status("Finished", exitCode))
        EXCEPT !.btn_run = TRUE, !.list_scripts = TRUE]

\* on_proc_finished without "self.btn_run.setEnabled(True)" (a faulty variant, tried against C32)
OnProcFinishedRunLeft(w, exitCode) ==
    [SetStatus([RestoreRange(w) EXCEPT !.pval = 100], Status("Finished", exitCode))
        EXCEPT !.btn_cancel = FALSE, !.list_scripts = TRUE]

\* MainWindow.on_proc_finished
OnProcFinished(w, exitCode) ==
    [SetStatus([RestoreRange(w) EXCEPT !.pval = 100], Status("Finished", exitCode))
        EXCEPT !.btn_run = TRUE, !.btn_cancel = FALSE, !.list_scripts = TRUE]

\* MainWindow.on_proc_error
OnProcError(w, err) ==
    SetStatus(
        RestoreRange([w EXCEPT !.txt_log = @ \o <<"[Process error] ", err, "\n">>,
                               !.btn_run = TRUE, !.btn_cancel = FALSE, !.list_scripts = TRUE]),
        Status("Error", 0))

\* on_cancel without "self.list_scripts.setEnabled(True)" (a faulty variant, tried against C28)
OnCancelListLeft(w) ==
    [RestoreRange(SetStatus(w, Status("Cancelled", 0)))
        EXCEPT !.btn_run = TRUE, !.btn_cancel = FALSE]

\* MainWindow.on_cancel, the window's side (the kill is in the action Cancel)
OnCancel(w) ==
    [RestoreRange(SetStatus(w, Status("Cancelled", 0)))
        EXCEPT !.btn_run = TRUE, !.btn_cancel = FALSE, !.list_scripts = TRUE]

\* start_process without "self.txt_log.clear()" (a faulty variant, tried against C29)
StartProcessLogKept(w, p) ==
    [w EXCEPT !.pval = 0, !.pmax = 0,
              !.lbl_status = Status("Running", 0),
              !.events = IF w.tracing THEN <<Status("Running", 0)>> ELSE <<>>,
              !.btn_run = FALSE, !.btn_cancel = TRUE, !.list_scripts = FALSE,
              !.proc = p]

\* MainWindow.start_process, the window's side; p is the new QProcess
StartProcess(w, p) ==
    [w EXCEPT !.txt_log = <<>>, !.pval = 0, !.pmax = 0,
              !.lbl_status = Status("Running", 0),
              !.events = IF w.tracing THEN <<Status("Running", 0)>> ELSE <<>>,
              !.btn_run = FALSE, !.btn_cancel = TRUE, !.list_scripts = FALSE,
              !.proc = p]

\* the style always taken as a flag, also when it is "positional" (a faulty variant, tried against C16)
CommandLineFlagStyle(v, script, path, bindings) ==
    <<PYTHON, script.path>> \o <<script.log_arg_style, path>> \o BuildCliArgs(bindings)
    \o (IF v = "balmas" THEN <<K_mode, T_gui>> ELSE <<>>)

\* the command line on_run_clicked builds
CommandLine(v, script, path, bindings) ==
    <<PYTHON, script.path>>
    \o (IF script.log_arg_style = Positional THEN <<path>> ELSE <<script.log_arg_style, path>>)
    \o BuildCliArgs(bindings)
    \o (IF v = "balmas" THEN <<K_mode, T_gui>> ELSE <<>>)

\* MainWindow.on_script_change for a row of the list
OnScriptChange(w, row) ==
    [w EXCEPT !.current_script = row, !.lbl_status = Status("Selected", row)]

\* MainWindow.clear_all after the confirmation, the window's side
\* (_clear_process_if_running drops the handle and resets the controls)
OnClearAll(w) ==
    [w EXCEPT !.proc = None,
              !.btn_run = TRUE, !.btn_cancel = FALSE, !.list_scripts = TRUE,
              !.txt_log = <<>>, !.pmax = 100, !.pval = 0,
              !.lbl_status = Status("Ready", 0), !.events = <<>>,
              !.log_file_path = <<>>]

(***************************************************************************)
(* Paste from the log (Main_Runner_Balmas.py)                              *)
(***************************************************************************)
RECURSIVE Pow10(_)
Pow10(k) == IF k = 0 THEN 1 ELSE 10 * Pow10(k - 1)

\* the parts of a text read as a number: sign, digits before and after the point
NumberParts(t) ==
    LET neg  == t # <<>> /\ t[1] = "-"
        body == IF t # <<>> /\ t[1] \in {"+", "-"} THEN Tail(t) ELSE t
        ip   == LeadingRun(body, Digits)
        rest == Drop(body, ip)
        fp   == IF rest # <<>> /\ rest[1] = "." THEN LeadingRun(Tail(rest), Digits) ELSE 0
    IN  [neg |-> neg, int |-> SubSeq(body, 1, ip), frac |-> SubSeq(rest, 2, fp + 1),
         ok |-> /\ ip + fp >= 1
                /\ \/ rest = <<>>
                   \/ rest[1] = "." /\ Len(rest) = fp + 1]

\* whether float(t) returns, for the texts of digits, sign and point (an
\* exponent, "inf" and "nan" are not among the texts pasted here)
IsNumber(t) == NumberParts(t).ok

\* float(t) in millionths, for a text with at most six digits after the point
FloatOf(t) ==
    LET n == NumberParts(t)
        v == ParseInt(n.int) * 1000000 + ParseInt(n.frac) * Pow10(6 - Len(n.frac))
    IN  IF n.neg THEN 0 - v ELSE v

\* int(float(t)): the part before the point
IntOf(t) ==
    LET n == NumberParts(t) IN IF n.neg THEN 0 - ParseInt(n.int) ELSE ParseInt(n.int)

\* str.lower() of the letters the accepted words are made of
ToLower(c) ==
    CASE c = "T" -> "t" [] c = "R" -> "r" [] c = "U" -> "u" [] c = "E" -> "e"
      [] c = "Y" -> "y" [] c = "S" -> "s" [] c = "O" -> "o" [] c = "N" -> "n" [] OTHER -> c

TruthWords == { <<"1">>, <<"t", "r", "u", "e">>, <<"y", "e", "s">>, <<"o", "n">> }

\* MainWindow._set_widget_value: what it returns and the widget it leaves; a
\* combo box of the form is never editable, a FilePicker is none of the
\* classes tested
SetWidgetValue(w, text) ==
    LET t == Strip(text) IN
    CASE w.cls = "QLineEdit" -> [ok |-> TRUE, widget |-> [w EXCEPT !.text = t]]
      [] w.cls = "QSpinBox" ->
            IF IsNumber(t) THEN [ok |-> TRUE, widget |-> SpinSetValue(w, IntOf(t))]
            ELSE [ok |-> FALSE, widget |-> w]
      [] w.cls = "QDoubleSpinBox" ->
            IF IsNumber(t) THEN [ok |-> TRUE, widget |-> SpinSetValue(w, FloatOf(t))]
            ELSE [ok |-> FALSE, widget |-> w]
      [] w.cls = "QComboBox" ->
            IF FindText(w.items, t) >= 0
            THEN [ok |-> TRUE, widget |-> [w EXCEPT !.index = FindText(w.items, t)]]
            ELSE [ok |-> FALSE, widget |-> w]
      [] w.cls = "QCheckBox" ->
            [ok |-> TRUE,
             widget |-> [w EXCEPT !.checked = [k \in 1..Len(t) |-> ToLower(t[k])] \in TruthWords]]
      [] OTHER -> [ok |-> FALSE, widget |-> w]

\* MainWindow._fallback_required_widget: the place of the first required
\* field, else of the first field, 0 when the form is empty
FallbackRequiredWidget(bindings) ==
    IF \E i \in 1..Len(bindings) : bindings[i].schema.required
    THEN CHOOSE i \in 1..Len(bindings) :
            bindings[i].schema.required /\ \A j \in 1..(i - 1) : ~bindings[j].schema.required
    ELSE IF bindings = <<>> THEN 0 ELSE 1

\* MainWindow._normalize_selected_text, for a selection within one line
NormalizeSelectedText(text) == Strip(text)

(***************************************************************************)
(* QProcess and the process behind it                                      *)
(***************************************************************************)
\* what a launched script may print, as the chunks it writes
C_PROGRESS80 == <<"P", "R", "O", "G", "R", "E", "S", "S", " ", "8", "0", "\n">>

Outputs == { <<C_PROGRESS80>> }

\* what the interpreter prints when the script it is given does not exist
\* ("can't open file ..."), and the code it then exits with
C_cant_open == <<"c", "a", "n", "'", "t", " ", "o", "p", "e", "n", "\n">>
MissingOutput == <<C_cant_open>>
MissingExitCode == 2

\* exit codes of a process that ends by itself, and the code of one that is killed or crashes
ExitCodes == {0, 2}
CrashCodes == {9}

ProcIds == 1..MaxProcs

\* no QProcess object: the slot is free
NoProcess ==
    [state |-> "Unused", killed |-> FALSE, ioerr |-> FALSE, crashed |-> FALSE,
     missing |-> FALSE, todo |-> <<>>, pipe |-> <<>>, buf |-> <<>>, args |-> <<>>]

\* QProcess(self) after setProgram, setArguments, setProcessChannelMode, start():
\* todo is what the process has still to write, pipe what it has written and
\* Qt has not read, buf what Qt has read and readAllStandardOutput() has not
\* returned; crashed is exitStatus() = CrashExit, killed that kill() was called,
\* ioerr that the process has reported a read error, missing that the script
\* the interpreter is given does not exist
NewProcess(args, out, missing) ==
    [NoProcess EXCEPT !.state = "Starting", !.todo = out, !.args = args, !.missing = missing]

\* QProcess.kill(): nothing for a process that is not running
Kill(ps, p) ==
    IF ps[p].state \in {"Starting", "Running"} THEN [ps EXCEPT ![p].killed = TRUE] ELSE ps

\* a process that was started and whose exit Qt has not reported
Alive(p) == procs[p].state \in {"Starting", "Running"}

\* a QProcess that has stopped and that self.proc no longer names can do
\* nothing more: its slot is free again; nothing reads the arguments or the
\* buffer of a QProcess that self.proc no longer names (on_proc_output reads
\* self.proc only)
Collect(ps, w) ==
    [p \in ProcIds |->
        IF p = w.proc THEN ps[p]
        ELSE IF ps[p].state = "NotRunning" THEN NoProcess
        ELSE [ps[p] EXCEPT !.args = <<>>, !.buf = <<>>]]

\* Qt moves what the process wrote into the QProcess buffer
Drained(ps, p) == [ps EXCEPT ![p].buf = @ \o ps[p].pipe, ![p].pipe = <<>>]

\* on_proc_output reads self.proc, whichever process emitted readyRead; with
\* self.proc None the slot raises before it changes anything
ReadAll(ps, w) == IF w.proc = None THEN <<>> ELSE ps[w.proc].buf
AfterReadAll(ps, w) == IF w.proc = None THEN ps ELSE [ps EXCEPT ![w.proc].buf = <<>>]

Paths == { <<"/", "l">> }
TextInputs == { <<>>, <<"7">>, <<" ">>, <<" ", "7", " ">> }
SpinInputs == { 0, 3, 4 }

\* the window MainWindow.__init__ leaves: row 0 of the list selected
InitWindow ==
    [current_script |-> 1, log_file_path |-> <<>>, proc |-> None,
     btn_run |-> TRUE, btn_cancel |-> FALSE, list_scripts |-> TRUE,
     pmax |-> 100, pval |-> 0, lbl_status |-> Status("Selected", 1),
     txt_log |-> <<>>, events |-> <<>>, tracing |-> FALSE]

Init ==
    /\ variant \in {"base", "balmas"}
    /\ win = InitWindow
    /\ form = Build(variant, SCRIPTS(variant)[1].args_schema)
    /\ procs = [p \in ProcIds |-> NoProcess]

\* choose_log_file: the dialog returns a path, or "" when it is dismissed
ChooseLogFile ==
    /\ \E path \in Paths \cup {<<>>} :
          win' = IF path # <<>> THEN [win EXCEPT !.log_file_path = path] ELSE win
    /\ UNCHANGED <<variant, form, procs>>

\* on_script_change building the new form without clear(), after the bindings
\* it had (a faulty variant, tried against C23)
ScriptChangeUncleared ==
    /\ win.list_scripts
    /\ \E row \in 1..Len(SCRIPTS(variant)) :
          /\ row # win.current_script
          /\ win' = OnScriptChange(win, row)
          /\ form' = form \o Build(variant, SCRIPTS(variant)[row].args_schema)
    /\ UNCHANGED <<variant, procs>>

\* the user picks another row of list_scripts (an enabled list only)
ScriptChange ==
    /\ win.list_scripts
    /\ \E row \in 1..Len(SCRIPTS(variant)) :
          /\ row # win.current_script
          /\ win' = OnScriptChange(win, row)
          /\ form' = Build(variant, SCRIPTS(variant)[row].args_schema)
    /\ UNCHANGED <<variant, procs>>

\* an edit that also moves the edited binding to the end of the bindings
\* (a faulty variant, tried against C13)
EditFieldMovesLast ==
    /\ \E i \in 1..Len(form), t \in TextInputs :
          /\ form[i].widget.cls \in {"QLineEdit", "FilePicker"}
          /\ form' = SubSeq(form, 1, i - 1) \o SubSeq(form, i + 1, Len(form))
                      \o << [form[i] EXCEPT !.widget.text = t] >>
    /\ UNCHANGED <<variant, win, procs>>

\* the user edits field i of the form
EditField ==
    /\ \E i \in 1..Len(form) :
          LET w == form[i].widget IN
          \/ /\ w.cls \in {"QLineEdit", "FilePicker"}
             /\ \E t \in TextInputs : form' = [form EXCEPT ![i].widget.text = t]
          \/ /\ w.cls \in {"QSpinBox", "QDoubleSpinBox"}
             /\ \E n \in SpinInputs :
                   form' = [form EXCEPT ![i].widget =
                               SpinSetValue(w, IF w.cls = "QSpinBox" THEN n ELSE n * 1000000)]
          \/ /\ w.cls = "QComboBox"
             /\ \E k \in 0..(Len(w.items) - 1) : form' = [form EXCEPT ![i].widget.index = k]
          \/ /\ w.cls = "QCheckBox"
             /\ form' = [form EXCEPT ![i].widget.checked = ~w.checked]
    /\ UNCHANGED <<variant, win, procs>>

\* on_run_clicked without the validation of the form (a faulty variant, tried against C17)
RunRefusedUnvalidated(v, w, bindings, exists, answer) ==
    \/ w.log_file_path = <<>>
    \/ w.current_script = None
    \/ v = "base" /\ ~exists /\ answer = "No"

\* the checks of on_run_clicked that end it before start_process; exists is
\* os.path.exists(script_path), answer the reply to "Continue anyway (demo)?"
RunRefused(v, w, bindings, exists, answer) ==
    \/ w.log_file_path = <<>>
    \/ w.current_script = None
    \/ ValidateAndCollect(bindings) # <<>>
    \/ v = "base" /\ ~exists /\ answer = "No"

\* a slot for a new QProcess: an unused one, or the one of the stopped
\* process that self.proc names, which the new process replaces
FreeSlot(q) ==
    \/ procs[q].state = "Unused"
    \/ q = win.proc /\ procs[q].state = "NotRunning"

\* on_run_clicked then start_process, for a click on the enabled Run button;
\* outs is what the launched script may print, ids the slots it may take
RunClickedWith(outs, ids) ==
    /\ win.btn_run
    /\ \/ /\ \E exists \in BOOLEAN, answer \in {"Yes", "No"} :
                RunRefused(variant, win, form, exists, answer)
          /\ UNCHANGED <<win, procs>>
       \/ /\ \E q \in ids : FreeSlot(q)
          /\ \E exists \in BOOLEAN :
             /\ \E answer \in {"Yes", "No"} : ~RunRefused(variant, win, form, exists, answer)
             /\ \E out \in (IF exists THEN outs ELSE {MissingOutput}) :
                LET p == CHOOSE q \in ids :
                            FreeSlot(q) /\ \A r \in ids : FreeSlot(r) => q <= r
                    w == StartProcess(win, p)
                IN  /\ win' = w
                    /\ procs' = Collect(
                          [procs EXCEPT ![p] = NewProcess(
                              CommandLine(variant, SCRIPTS(variant)[win.current_script],
                                          win.log_file_path, form), out, ~exists)], w)
    /\ UNCHANGED <<variant, form>>

RunClicked == RunClickedWith(Outputs, ProcIds)

\* on_cancel, for a click on the enabled Cancel button
Cancel ==
    /\ win.btn_cancel
    /\ procs' = IF win.proc # None THEN Kill(procs, win.proc) ELSE procs
    /\ win' = OnCancel(win)
    /\ UNCHANGED <<variant, form>>

\* clear_all killing the process before it asks, so also when the answer is
\* No (a faulty variant, tried against C35)
ClearAllKillsFirst ==
    /\ variant = "balmas"
    /\ \E answer \in {"Yes", "No"} :
          IF win.proc # None /\ answer = "No"
          THEN /\ procs' = Kill(procs, win.proc)
               /\ UNCHANGED <<win, form>>
          ELSE /\ procs' = Collect(IF win.proc # None THEN Kill(procs, win.proc) ELSE procs,
                                   OnClearAll(win))
               /\ win' = OnClearAll(win)
               /\ form' = IF win.current_script # None
                          THEN Build(variant, SCRIPTS(variant)[win.current_script].args_schema)
                          ELSE <<>>
    /\ UNCHANGED variant

\* clear_all (Main_Runner_Balmas.py); answer is the reply to "Kill it and clear the GUI?"
ClearAll ==
    /\ variant = "balmas"
    /\ \E answer \in {"Yes", "No"} :
          IF win.proc # None /\ answer = "No"
          THEN UNCHANGED <<win, form, procs>>
          ELSE /\ procs' = Collect(IF win.proc # None THEN Kill(procs, win.proc) ELSE procs,
                                   OnClearAll(win))
               /\ win' = OnClearAll(win)
               /\ form' = IF win.current_script # None
                          THEN Build(variant, SCRIPTS(variant)[win.current_script].args_schema)
                          ELSE <<>>
    /\ UNCHANGED variant

\* the process is running (QProcess.started)
ProcStarted ==
    /\ \E p \in ProcIds :
          /\ procs[p].state = "Starting"
          /\ procs' = [procs EXCEPT ![p].state = "Running"]
    /\ UNCHANGED <<variant, win, form>>

\* the program cannot be executed: errorOccurred(FailedToStart), no finished signal
StartFailed ==
    /\ \E p \in ProcIds :
          /\ procs[p].state = "Starting"
          /\ procs' = Collect([procs EXCEPT ![p].state = "NotRunning", ![p].todo = <<>>], win)
          /\ win' = OnProcError(win, "FailedToStart")
    /\ UNCHANGED <<variant, form>>

\* the running process writes its next chunk to the merged channel
ProcWrite ==
    /\ \E p \in ProcIds :
          /\ procs[p].state = "Running" /\ ~procs[p].killed
          /\ procs[p].todo # <<>>
          /\ procs' = [procs EXCEPT ![p].pipe = @ \o Head(procs[p].todo),
                                    ![p].todo = Tail(@)]
    /\ UNCHANGED <<variant, win, form>>

\* readyReadStandardOutput of process p, delivered to on_proc_output
ReadyRead ==
    /\ \E p \in ProcIds :
          /\ procs[p].state = "Running"
          /\ procs[p].pipe # <<>>
          /\ LET ps == Drained(procs, p) IN
                /\ win' = OnProcOutput(win, ReadAll(ps, win))
                /\ procs' = Collect(AfterReadAll(ps, win), win)
    /\ UNCHANGED <<variant, form>>

\* errorOccurred(ReadError) of a process that goes on running (once per process)
ProcIOError ==
    /\ \E p \in ProcIds :
          /\ procs[p].state = "Running" /\ ~procs[p].ioerr
          /\ procs' = [procs EXCEPT ![p].ioerr = TRUE]
          /\ win' = OnProcError(win, "ReadError")
    /\ UNCHANGED <<variant, form>>

\* a crashed process started again by the window, with the arguments it had
\* (a faulty variant, tried against C24)
DiedRetrying(p, crashed, exitCode) ==
    IF crashed /\ procs[p].state = "Running" /\ ~procs[p].killed
    THEN /\ win' = OnProcError(win, "Crashed")
         /\ procs' = [procs EXCEPT ![p] = NewProcess(procs[p].args, <<>>, procs[p].missing)]
    ELSE /\ win' = OnProcFinished(IF crashed THEN OnProcError(win, "Crashed") ELSE win, exitCode)
         /\ procs' = Collect([procs EXCEPT ![p].state = "NotRunning", ![p].todo = <<>>,
                                           ![p].pipe = <<>>, ![p].ioerr = FALSE,
                                           ![p].crashed = crashed], win)

\* what Qt does when process p has died: it reads what is left in the pipe
\* (readyRead, when there is something), emits errorOccurred(Crashed) when the
\* process did not exit by itself, then finished(exitCode, exitStatus)
Died(p, crashed, exitCode) ==
    LET ps  == Drained(procs, p)
        w1  == IF procs[p].pipe # <<>> THEN OnProcOutput(win, ReadAll(ps, win)) ELSE win
        ps1 == IF procs[p].pipe # <<>> THEN AfterReadAll(ps, win) ELSE ps
        w2  == IF crashed THEN OnProcError(w1, "Crashed") ELSE w1
    IN  /\ win' = OnProcFinished(w2, exitCode)
        /\ procs' = Collect([ps1 EXCEPT ![p].state = "NotRunning", ![p].todo = <<>>,
                                        ![p].ioerr = FALSE, ![p].crashed = crashed], win)

\* the process ends by itself, with what it has written so far
ProcExited ==
    /\ \E p \in ProcIds, code \in ExitCodes :
          /\ procs[p].state = "Running"
          /\ procs[p].missing => code = MissingExitCode
          /\ Died(p, FALSE, code)
    /\ UNCHANGED <<variant, form>>

\* the process is killed (after kill()) or crashes by itself
ProcCrashed ==
    /\ \E p \in ProcIds, code \in CrashCodes :
          /\ Alive(p)
          /\ Died(p, TRUE, code)
    /\ UNCHANGED <<variant, form>>

Next ==
    \/ ChooseLogFile
    \/ ScriptChange
    \/ RunClicked
    \/ Cancel
    \/ ClearAll
    \/ ProcStarted
    \/ StartFailed
    \/ ProcWrite
    \/ ReadyRead
    \/ ProcIOError
    \/ ProcExited
    \/ ProcCrashed

Spec == Init /\ [][Next]_vars

(***************************************************************************)
(* Uninterrupted runs: one process at a time, no cancel, no error, with    *)
(* the texts set_status shows recorded in win.events.  The launched script *)
(* prints one of RunOutputs.                                               *)
(***************************************************************************)
L_PROGRESS0   == <<"P", "R", "O", "G", "R", "E", "S", "S", " ", "0", "\n">>
L_PROGRESS50  == <<"P", "R", "O", "G", "R", "E", "S", "S", " ", "5", "0", "\n">>
L_PROGRESS100 == <<"P", "R", "O", "G", "R", "E", "S", "S", " ", "1", "0", "0", "\n">>
C_PROG        == <<"P", "R", "O", "G">>
C_RESS42      == <<"R", "E", "S", "S", " ", "4", "2", "\n">>
C_PROGRESS4   == <<"P", "R", "O", "G", "R", "E", "S", "S", " ", "4">>
C_2           == <<"2", "\n">>
C_ok          == <<"o", "k", "\n">>

\* the parts a line is put together from, to try the PROGRESS expression on
LineHeads  == { <<>>, <<" ">> }
LineTokens == { ProgressToken,
                <<"p", "r", "o", "g", "r", "e", "s", "s">>,
                <<"P", "r", "o", "g", "R", "e", "s", "S">>,
                <<"x">> \o ProgressToken }
LineGaps   == { <<>>, <<" ">>, <<"\t">> }
\* a number as the script prints it, with the value it denotes
LineNumbers ==
    { [digits |-> <<>>, n |-> 0],
      [digits |-> <<"0">>, n |-> 0],
      [digits |-> <<"5", "7">>, n |-> 57],
      [digits |-> <<"1", "0">>, n |-> 10],
      [digits |-> <<"0", "4", "2">>, n |-> 42],
      [digits |-> <<"1", "0", "0">>, n |-> 100],
      [digits |-> <<"2", "5", "0">>, n |-> 250],
      [digits |-> <<"1", "0", "0", "0">>, n |-> 1000] }
LineTails  == { <<>>, <<" ">> }

ParseInputs ==
    [head : LineHeads, tok : LineTokens, gap : LineGaps, num : LineNumbers, tail : LineTails]

LineOf(i) == i.head \o i.tok \o i.gap \o i.num.digits \o i.tail \o <<"\n">>

RunOutputs ==
    { <<L_PROGRESS0, L_PROGRESS50, L_PROGRESS100>>,
      <<C_PROG, C_RESS42>>, <<C_PROGRESS4, C_2>>, <<C_ok>>, <<C_PROGRESS80, C_ok>> }
    \cup { <<LineOf(i)>> : i \in ParseInputs }

\* a row of the list whose form is valid as built
RunRow(v) == IF v = "base" THEN 2 ELSE 3

\* a log file chosen and a script selected that needs no input
InitRun ==
    /\ variant \in {"base", "balmas"}
    /\ \E path \in Paths :
          win = [InitWindow EXCEPT !.log_file_path = path,
                                   !.current_script = RunRow(variant),
                                   !.lbl_status = Status("Selected", RunRow(variant)),
                                   !.tracing = TRUE]
    /\ form = Build(variant, SCRIPTS(variant)[RunRow(variant)].args_schema)
    /\ procs = [p \in ProcIds |-> NoProcess]

RunOnce == RunClickedWith(RunOutputs, {1})

NextRun ==
    \/ RunOnce
    \/ ProcStarted
    \/ ProcWrite
    \/ ReadyRead
    \/ ProcExited

SpecRun == InitRun /\ [][NextRun]_vars

(***************************************************************************)
(* Runs that end: a log file chosen and a script that needs no input, every *)
(* click and every event of the supervisor, and each process that was       *)
(* started stops at some time (it exits, crashes or is killed, or fails to  *)
(* start) with its signals delivered                                        *)
(***************************************************************************)
InitLive ==
    /\ variant \in {"base", "balmas"}
    /\ \E path \in Paths :
          win = [InitWindow EXCEPT !.log_file_path = path,
                                   !.current_script = RunRow(variant),
                                   !.lbl_status = Status("Selected", RunRow(variant))]
    /\ form = Build(variant, SCRIPTS(variant)[RunRow(variant)].args_schema)
    /\ procs = [p \in ProcIds |-> NoProcess]

NextLive ==
    \/ RunClicked
    \/ Cancel
    \/ ClearAll
    \/ ProcStarted
    \/ StartFailed
    \/ ProcWrite
    \/ ReadyRead
    \/ ProcIOError
    \/ ProcExited
    \/ ProcCrashed

\* each process stops at some time: weak fairness of the step in which Qt
\* reports the end of process p (finished, or errorOccurred(FailedToStart)),
\* a step that is possible exactly while p is alive
SpecLive == InitLive /\ [][NextLive]_vars /\ \A p \in ProcIds : []<>~Alive(p)

(***************************************************************************)
(* The form alone, for any schema of up to MaxFields fields                *)
(***************************************************************************)
MaxFields == 2

FieldKinds == {"text", "string", "int", "float", "select", "checkbox", "file_open"}

\* the fields a schema may hold: every kind, required or not, a select with
\* its options or with none, and fields with the empty key
FieldPool ==
    { Field(K_a, "f", k, r) : k \in FieldKinds, r \in BOOLEAN }
    \cup { [Field(K_a, "f", "select", r) EXCEPT !.options = <<T_default, T_extended>>] :
              r \in BOOLEAN }
    \cup { Field(<<>>, "f", k, FALSE) : k \in {"text", "int", "checkbox"} }

FieldLabels == <<"f1", "f2", "f3", "f4">>
FieldKeys == <<K_a, K_b, K_limit, K_SN>>

\* the schemas: each field of the pool, labelled and keyed by its place
FormSchemas ==
    { [i \in DOMAIN f |-> [f[i] EXCEPT !.label = FieldLabels[i],
                                    !.key = IF @ = <<>> THEN <<>> ELSE FieldKeys[i]]] :
          f \in UNION { [1..m -> FieldPool] : m \in 0..MaxFields } }

InitForm ==
    /\ variant \in {"base", "balmas"}
    /\ win = InitWindow
    /\ \E schema \in FormSchemas : form = Build(variant, schema)
    /\ procs = [p \in ProcIds |-> NoProcess]

NextForm == EditField

SpecForm == InitForm /\ [][NextForm]_vars

(***************************************************************************)
(* Pasting into the form: a schema of up to MaxFields fields, a log that   *)
(* holds one line, which the user selects and pastes, and edits            *)
(***************************************************************************)
\* the fields: every kind that has a widget of its own, required or not; the
\* numbers with the range of the schema's documentation (0 to 100) and of
\* Epsilon (0 to 1)
PastePool ==
    UNION { { Field(K_a, "f", "text", r),
              [Field(K_a, "f", "int", r) EXCEPT !.min = 0, !.max = 100],
              [Field(K_a, "f", "float", r) EXCEPT !.min = 0, !.max = 1000000],
              [Field(K_a, "f", "select", r) EXCEPT !.options = <<T_default, T_extended>>],
              Field(K_a, "f", "checkbox", r),
              Field(K_a, "f", "file_open", r) } : r \in BOOLEAN }

PasteSchemas ==
    { [i \in DOMAIN f |-> [f[i] EXCEPT !.label = FieldLabels[i], !.key = FieldKeys[i]]] :
          f \in UNION { [1..m -> PastePool] : m \in 0..MaxFields } }

\* the texts selected in the log
PasteInputs ==
    { <<"7">>, <<" ", "7", " ">>, <<"x">>, <<"3", ".", "7">>, <<"-", "4">>,
      <<"2", "5", "0">>, <<"0", ".", "5">>, T_extended, <<"O", "n">> }

InitPaste ==
    /\ variant = "balmas"
    /\ \E raw \in PasteInputs : win = [InitWindow EXCEPT !.txt_log = raw \o <<"\n">>]
    /\ \E schema \in PasteSchemas : form = Build(variant, schema)
    /\ procs = [p \in ProcIds |-> NoProcess]

\* paste_from_log_selection with the first line of the log selected; focus is
\* the field that has the keyboard focus, 0 when none has it (the click on the
\* button took it) and the fallback is taken; the focus in a FilePicker is in
\* its QLineEdit
PasteFromLogSelection ==
    /\ variant = "balmas"
    /\ win.txt_log # <<>>
    /\ \E focus \in 0..Len(form) :
          LET raw == NormalizeSelectedText(Head(SplitLines(win.txt_log)))
              i   == IF focus > 0 THEN focus ELSE FallbackRequiredWidget(form)
              w   == form[i].widget
              r   == IF focus > 0 /\ w.cls = "FilePicker"
                     THEN [ok |-> TRUE, widget |-> [w EXCEPT !.text = Strip(raw)]]
                     ELSE SetWidgetValue(w, raw)
          IN  /\ raw # <<>>
              /\ i > 0
              /\ IF r.ok
                 THEN /\ form' = [form EXCEPT ![i].widget = r.widget]
                      /\ win' = SetStatus(win, Status("Pasted", 0))
                 ELSE UNCHANGED <<form, win>>
    /\ UNCHANGED <<variant, procs>>

NextPaste ==
    \/ PasteFromLogSelection
    \/ EditField

SpecPaste == InitPaste /\ [][NextPaste]_vars

(***************************************************************************)
(* The run state the window shows, and the properties of the supervisor    *)
(***************************************************************************)
\* the phase the status label stands for
RunState(w) ==
    CASE w.lbl_status.tag \in {"Running", "Pct"} -> "Running"
      [] w.lbl_status.tag = "Finished" -> "Finished"
      [] w.lbl_status.tag = "Error" -> "Errored"
      [] w.lbl_status.tag = "Cancelled" -> "Cancelled"
      [] OTHER -> "Idle"

\* this step starts a process
Launch == \E p \in ProcIds : procs[p].state # "Starting" /\ procs'[p].state = "Starting"

\* this step brings the window back to rest (clear_all, or another script picked)
Rest == win'.lbl_status.tag \in {"Ready", "Selected"}

\* the values of the progress texts among the texts shown, in order
ProgressEvents(ev) ==
    LET sel == SelectSeq(ev, LAMBDA e : e.tag = "Pct")
    IN  [k \in 1..Len(sel) |-> sel[k].arg]

\* C1: while the window shows a run in progress and the process it holds is
\* running and was never killed, no step starts a process
C1_NoStartWhileRunning ==
    [][ ( /\ RunState(win) = "Running"
          /\ win.proc # None
          /\ procs[win.proc].state = "Running"
          /\ ~procs[win.proc].killed )
        => ~Launch ]_vars

\* C2: at most one of the processes the window has started is alive
C2_AtMostOneAlive == Cardinality({p \in ProcIds : Alive(p)}) <= 1

\* C3: from Cancelled, a step that neither starts a process nor brings the
\* window back to rest leaves the state Cancelled and the progress value as it is
C3_StaysCancelled ==
    [][ (RunState(win) = "Cancelled" /\ ~Launch /\ ~Rest)
        => (RunState(win') = "Cancelled" /\ win'.pval = win.pval) ]_vars

\* C4: a ready-to-read notification delivered while the state is Cancelled
\* shows no progress and leaves the log as it is
C4_NoOutputAfterCancel ==
    [][ (RunState(win) = "Cancelled" /\ ReadyRead)
        => (win'.txt_log = win.txt_log /\ win'.lbl_status = win.lbl_status) ]_vars

\* C5: when the process the window holds has crashed without having been
\* killed, the state is Errored (or the window is back to rest)
C5_CrashEndsErrored ==
    \A p \in ProcIds :
        ( /\ p = win.proc
          /\ procs[p].state = "NotRunning"
          /\ procs[p].crashed
          /\ ~procs[p].killed )
        => (RunState(win) = "Errored" \/ win.lbl_status.tag \in {"Ready", "Selected"})

\* C6: when a running process ends by itself with exit code c, the state
\* becomes Finished(c) with the progress bar at 100 of 100; and whenever the
\* state is Finished the progress bar is at 100 of 100
C6_FinishedForcesFull ==
    /\ [](RunState(win) = "Finished" => (win.pval = 100 /\ win.pmax = 100))
    /\ [][ \A p \in ProcIds, code \in ExitCodes :
              (procs[p].state = "Running" /\ Died(p, FALSE, code))
              => ( /\ win'.lbl_status = Status("Finished", code)
                   /\ win'.pval = 100 /\ win'.pmax = 100 ) ]_vars

\* C6 happens: the process printed PROGRESS 80, nothing more, and exited with code 2
C6_Witness ==
    /\ win.lbl_status = Status("Finished", 2)
    /\ win.txt_log = C_PROGRESS80
    /\ win.pval = 100
    /\ win.proc # None
    /\ procs[win.proc].state = "NotRunning"
    /\ ~procs[win.proc].crashed /\ ~procs[win.proc].killed

(***************************************************************************)
(* Properties of the output handling, on uninterrupted runs                *)
(***************************************************************************)
\* C7: when the log holds the line "PROGRESS 42" that arrived as "PROG" then
\* "RESS 42\n", exactly one progress event, of 42, was produced; and no
\* progress event was produced while the log held the fragment "PROGRESS 4"
C7_PartialLinesBuffered ==
    /\ win.txt_log = C_PROG \o C_RESS42 => ProgressEvents(win.events) = <<42>>
    /\ win.txt_log = C_PROG => ProgressEvents(win.events) = <<>>
    /\ win.txt_log = C_PROGRESS4 => ProgressEvents(win.events) = <<>>
    /\ win.txt_log = C_PROGRESS4 \o C_2 => ProgressEvents(win.events) = <<42>>

\* the lines C8 speaks of: the token in some letter case, a space, one to three digits
WellFormed(i) ==
    /\ i.tok \in LineTokens \ { <<"x">> \o ProgressToken }
    /\ i.gap = <<" ">>
    /\ Len(i.num.digits) \in 1..3
\* the token alone, and the token after another character
NoNumber(i) == i.tok \in LineTokens \ { <<"x">> \o ProgressToken } /\ i.num.digits = <<>>
Prefixed(i) == i.tok = <<"x">> \o ProgressToken

\* C8: while the one line the running process has printed is a well-formed
\* progress line of number n, one progress event of min(100, n) was produced
\* and the progress value is min(100, n); while it is the token without a
\* number or the token after another character, there was no progress event
\* and the progress value is the one the start left
C8_ParserClamps ==
    \A i \in ParseInputs :
        (win.txt_log = LineOf(i) /\ RunState(win) = "Running")
        => IF WellFormed(i)
           THEN /\ ProgressEvents(win.events) = <<Min(100, i.num.n)>>
                /\ win.pval = Min(100, i.num.n)
           ELSE (NoNumber(i) \/ Prefixed(i))
                => (ProgressEvents(win.events) = <<>> /\ win.pval = 0)

\* C8 happens: the line " progress 250 " was read and the progress value is 100
C8_Witness ==
    /\ win.txt_log = <<" ", "p", "r", "o", "g", "r", "e", "s", "s", " ", "2", "5", "0", " ", "\n">>
    /\ win.lbl_status = Status("Pct", 100)
    /\ win.pval = 100

\* C9: once the three lines PROGRESS 0, PROGRESS 50, PROGRESS 100 are in the
\* log, the texts shown since the start are Running, 0, 50, 100, followed by
\* Finished(0) once the process has exited with code 0, and by nothing else
C9_ScenarioSequence ==
    win.txt_log = L_PROGRESS0 \o L_PROGRESS50 \o L_PROGRESS100
    => /\ RunState(win) = "Running"
          => win.events = <<Status("Running", 0), Status("Pct", 0), Status("Pct", 50),
                            Status("Pct", 100)>>
       /\ win.lbl_status = Status("Finished", 0)
          => win.events = <<Status("Running", 0), Status("Pct", 0), Status("Pct", 50),
                            Status("Pct", 100), Status("Finished", 0)>>

\* C9 happens: the task has printed its three lines and exited with code 0
C9_Witness ==
    /\ win.txt_log = L_PROGRESS0 \o L_PROGRESS50 \o L_PROGRESS100
    /\ win.lbl_status = Status("Finished", 0)
    /\ Len(win.events) = 5
    /\ procs[1].state = "NotRunning"

(***************************************************************************)
(* Properties of the form                                                  *)
(***************************************************************************)
\* the value a field is bound to is empty or unset: a text or a path of
\* blanks only, a choice with nothing chosen; a number and a tick are always set
Unset(b) ==
    CASE b.widget.cls \in {"QLineEdit", "FilePicker"} ->
            \A k \in 1..Len(b.widget.text) : b.widget.text[k] \in Whitespace
      [] b.widget.cls = "QComboBox" -> b.widget.index < 0
      [] OTHER -> FALSE

C11_UnboundNumberMissing ==
    ( /\ Len(form) = 2
      /\ \A i \in 1..2 : /\ form[i].schema.type = "int"
                         /\ form[i].schema.required
                         /\ ~form[i].schema.hasDefault
      /\ form[1].schema.key = K_a /\ form[2].schema.key = K_b
      /\ form[1].widget.num = 3
      /\ form[2].widget = MakeWidget(variant, form[2].schema) )
    => ValidateAndCollect(form) = <<form[2].schema.label>>

\* the flags of the schemas
KeyTokens == { FieldKeys[i] : i \in 1..Len(FieldKeys) }

\* the places of token t in an argument list
Places(args, t) == { k \in 1..Len(args) : args[k] = t }

\* C12: the flag of a check box is not among the arguments when the box is not
\* ticked; when it is ticked the flag is there exactly once, and what follows
\* it, if anything, is the flag of a later field and not a value
C12_CheckboxFlagOnly ==
    \A i \in 1..Len(form) :
        (form[i].schema.type = "checkbox" /\ form[i].schema.key # <<>>)
        => LET args == BuildCliArgs(form)
               at   == Places(args, form[i].schema.key)
           IN  IF form[i].widget.checked
               THEN /\ Cardinality(at) = 1
                    /\ \A k \in at : k = Len(args) \/ args[k + 1] \in KeyTokens
               ELSE at = {}

\* C12 happens: a ticked box followed by an integer field
C12_Witness ==
    /\ Len(form) = 2
    /\ form[1].schema.type = "checkbox" /\ form[1].widget.checked
    /\ form[2].schema.type = "int"
    /\ BuildCliArgs(form) = <<K_a, K_b, <<"3">>>>

\* a binding that gives tokens to the argument list
Contributes(b) ==
    b.schema.key # <<>> /\ (b.schema.type = "checkbox" => b.widget.checked)

\* C13: the flags among the arguments are those of the fields that give any,
\* in the order of the schema; and an edit keeps every field at its place, so
\* that the arguments are those of the values the fields hold, whatever the
\* order they were entered in
C13_SchemaOrder ==
    /\ [](SelectSeq(BuildCliArgs(form), LAMBDA t : t \in KeyTokens)
          = SelectSeq(FieldKeys, LAMBDA k : \E i \in 1..Len(form) :
                                    form[i].schema.key = k /\ Contributes(form[i])))
    /\ [][ /\ Len(form') = Len(form)
           /\ \A i \in 1..Len(form) : form'[i].schema = form[i].schema ]_vars

\* C13 happens: both fields of a form were edited
C13_Witness ==
    /\ Len(form) = 2
    /\ form[1].widget.cls = "QLineEdit" /\ form[1].widget.text = <<"7">>
    /\ form[2].widget.cls = "QSpinBox" /\ form[2].widget.num = 4
    /\ BuildCliArgs(form) = <<K_a, <<"7">>, K_b, <<"4">>>>

\* the string form of the value a field holds, for the values the fields take
\* here: the text without the blanks around it, the number as Python prints
\* it, the text of the option chosen
Shown(w) ==
    CASE w.cls \in {"QLineEdit", "FilePicker"} ->
            (IF w.text \in { <<"7">>, <<" ", "7", " ">> } THEN <<"7">> ELSE <<>>)
      [] w.cls = "QSpinBox" ->
            (CASE w.num = 0 -> <<"0">> [] w.num = 3 -> <<"3">> [] w.num = 4 -> <<"4">>)
      [] w.cls = "QDoubleSpinBox" ->
            (CASE w.num = 0 -> <<"0", ".", "0">>
               [] w.num = 3000000 -> <<"3", ".", "0">>
               [] w.num = 4000000 -> <<"4", ".", "0">>)
      [] w.cls = "QComboBox" ->
            (CASE w.index = 0 -> T_default [] w.index = 1 -> T_extended [] OTHER -> <<>>)

Launched(p) == procs[p].state # "Starting" /\ procs'[p].state = "Starting"

\* the tokens of the primary input for a script and the log file chosen
PrimaryInput(script, path) ==
    IF script.log_arg_style = Positional THEN <<path>> ELSE <<script.log_arg_style, path>>

\* C15: a process is started with exactly the interpreter and the script, the
\* primary input, and the arguments of the form, and no other token
C15_CommandLineExact ==
    [][ \A p \in ProcIds :
           Launched(p)
           => LET script == SCRIPTS(variant)[win.current_script]
              IN  procs'[p].args = <<PYTHON, script.path>>
                                   \o PrimaryInput(script, win.log_file_path)
                                   \o BuildCliArgs(form) ]_vars

\* C16: in the command line of a process that is started, the primary input
\* follows the script: the path alone with the positional style, the flag and
\* then the path with a flag style; the arguments of the form come next
C16_PrimaryInputStyle ==
    [][ \A p \in ProcIds :
           Launched(p)
           => LET script == SCRIPTS(variant)[win.current_script]
                  a      == procs'[p].args
                  fa     == BuildCliArgs(form)
                  n      == IF script.log_arg_style = Positional THEN 1 ELSE 2
              IN  /\ Len(a) >= 2 + n + Len(fa)
                  /\ IF script.log_arg_style = Positional
                     THEN a[3] = win.log_file_path
                     ELSE a[3] = script.log_arg_style /\ a[4] = win.log_file_path
                  /\ SubSeq(a, 3 + n, 2 + n + Len(fa)) = fa ]_vars

\* C16 happens: Script B, of positional style, is started on the log file chosen
C16_Witness ==
    /\ variant = "base"
    /\ win.proc # None
    /\ procs[win.proc].state = "Starting"
    /\ procs[win.proc].args =
          << PYTHON, P_script_b, <<"/", "l">>,
             K_limit, <<"1", "0">>, K_epsilon, <<"0", ".", "1">> >>

\* the run request is not valid: no log file chosen, no script selected, or
\* a required field of the form is missing
Invalid ==
    \/ win.log_file_path = <<>>
    \/ win.current_script = None
    \/ ValidateAndCollect(form) # <<>>

\* C17: while the run request is not valid no step starts a process, and a
\* click on Run leaves the window and the processes as they are
C17_InvalidRunChangesNothing ==
    [][ Invalid => ( /\ \A p \in ProcIds : ~Launched(p)
                     /\ RunClicked => UNCHANGED <<win, procs>> ) ]_vars

\* C17 happens: Run can be clicked on a form with a required field missing,
\* after a run that left its output and a full progress bar
C17_Witness ==
    /\ win.btn_run
    /\ win.log_file_path # <<>>
    /\ ValidateAndCollect(form) # <<>>
    /\ win.txt_log = C_PROGRESS80
    /\ win.pval = 100
    /\ win.proc # None

\* C18: when a running process ends by itself with an exit code other than 0,
\* the state is Finished with that code, not Errored, and the controls are
\* those of the window at rest: Run and the list enabled, Cancel disabled
C18_NonZeroExitFinished ==
    [][ \A p \in ProcIds, code \in ExitCodes \ {0} :
           (procs[p].state = "Running" /\ Died(p, FALSE, code))
           => ( /\ RunState(win') = "Finished"
                /\ win'.lbl_status.arg = code
                /\ win'.btn_run /\ ~win'.btn_cancel /\ win'.list_scripts ) ]_vars

\* C18 happens: the process the window holds has exited with code 2
C18_Witness ==
    /\ win.lbl_status = Status("Finished", 2)
    /\ win.btn_run /\ ~win.btn_cancel /\ win.list_scripts
    /\ win.proc # None
    /\ procs[win.proc].state = "NotRunning"
    /\ ~procs[win.proc].crashed

\* C19: when the process the window holds was started on a script that does
\* not exist and has ended by itself, neither killed nor crashed, the state is
\* Errored (or the window is back to rest)
C19_MissingProgramErrored ==
    \A p \in ProcIds :
        ( /\ p = win.proc
          /\ procs[p].missing
          /\ procs[p].state = "NotRunning"
          /\ ~procs[p].killed /\ ~procs[p].crashed )
        => (RunState(win) = "Errored" \/ win.lbl_status.tag \in {"Ready", "Selected"})

NextSelect ==
    \/ ScriptChange
    \/ EditField
    \/ ClearAll

SpecSelect == Init /\ [][NextSelect]_vars

\* C21: while a process the window has started is alive and was not killed,
\* it is the process the window holds and Cancel is enabled
C21_CancelAvailableWhileAlive ==
    \A p \in ProcIds :
        (Alive(p) /\ ~procs[p].killed) => (win.btn_cancel /\ win.proc = p)

\* C22: from the state clear_all leaves (status Ready), a step that neither
\* starts a process nor selects a script keeps the status Ready, the progress
\* at 0, the log empty and the handle dropped
C22_StaysIdleAfterReset ==
    [][ ( /\ win.lbl_status.tag = "Ready"
          /\ \A p \in ProcIds : ~Launched(p)
          /\ win'.lbl_status.tag # "Selected" )
        => ( /\ win'.lbl_status.tag = "Ready"
             /\ win'.pval = 0
             /\ win'.txt_log = <<>>
             /\ win'.proc = None ) ]_vars

\* C23: the bindings of the form are the fields of the schema of the script
\* selected, one binding per field and in the order of the schema
C23_BindingsMatchSchema ==
    LET schema == SCRIPTS(variant)[win.current_script].args_schema
    IN  /\ Len(form) = Len(schema)
        /\ \A i \in 1..Len(form) : form[i].schema = schema[i]

\* C23 happens: Script C was selected after the first script, and its one
\* field edited
C23_Witness ==
    /\ variant = "base"
    /\ win.current_script = 3
    /\ Len(form) = 1
    /\ form[1].schema.key = K_profile
    /\ form[1].widget.index = 1

\* C24: a process is started only by a step that is a click on Run, whatever
\* the state, so that none is started by the end of a run
C24_NoRetry ==
    [][ (\E p \in ProcIds : Launched(p)) => RunClicked ]_vars

\* C24 happens: a run has ended by a crash, no process is alive and none is started
C24_Witness ==
    /\ win.proc # None
    /\ procs[win.proc].state = "NotRunning"
    /\ procs[win.proc].crashed
    /\ ~procs[win.proc].killed
    /\ \A p \in ProcIds : ~Alive(p)

\* C26: the process that self.proc names, alive, never killed and without an
\* error of its own, is shown as running, with Run disabled and Cancel
\* enabled: no event of another process ends its run in the window
C26_LaterRunUntouched ==
    \A p \in ProcIds :
        (p = win.proc /\ Alive(p) /\ ~procs[p].killed /\ ~procs[p].ioerr)
            => (RunState(win) = "Running" /\ ~win.btn_run /\ win.btn_cancel)

\* C27: a process that has output for on_proc_output always finds a process
\* named by self.proc
C27_OutputFindsProcess ==
    \A p \in ProcIds :
        (procs[p].state = "Running" /\ procs[p].pipe # <<>>) => win.proc # None

\* C28: Run is enabled exactly when Cancel is disabled, and the list of
\* scripts is enabled exactly when Run is
C28_ControlsConsistent ==
    /\ win.btn_run <=> ~win.btn_cancel
    /\ win.list_scripts <=> win.btn_run

\* C28 happens: a run was cancelled and the three controls were set back
C28_Witness ==
    /\ RunState(win) = "Cancelled"
    /\ win.btn_run /\ ~win.btn_cancel /\ win.list_scripts
    /\ win.proc # None /\ procs[win.proc].killed

\* C29: a step that starts a process leaves the log empty, the progress bar
\* at 0 and indeterminate, the status "Running", and self.proc naming the
\* process started, which has written nothing and was never killed
C29_StartDiscardsPrevious ==
    [][ \A p \in ProcIds :
            Launched(p) =>
                /\ win'.txt_log = <<>>
                /\ win'.pval = 0 /\ win'.pmax = 0
                /\ win'.lbl_status = Status("Running", 0)
                /\ win'.proc = p
                /\ procs'[p].pipe = <<>> /\ procs'[p].buf = <<>>
                /\ ~procs'[p].killed /\ ~procs'[p].ioerr /\ ~procs'[p].crashed ]_vars

\* C29 happens: a process was started after a run whose process reported an
\* error, which the log showed
C29_Witness ==
    /\ win.proc # None /\ procs[win.proc].state = "Starting"
    /\ win.lbl_status = Status("Running", 0)
    /\ win.txt_log = <<>> /\ win.pval = 0 /\ win.pmax = 0
    /\ \E q \in ProcIds : q # win.proc /\ procs[q].ioerr

\* sequence a is the beginning of sequence b
IsPrefix(a, b) == Len(a) <= Len(b) /\ SubSeq(b, 1, Len(a)) = a

C31_RecognisedIffForm ==
    \A i \in ParseInputs :
        (win.txt_log = LineOf(i) /\ RunState(win) = "Running")
        => (ProgressEvents(win.events) # <<>> <=> WellFormed(i))

\* C32: whenever a process started by the window is alive, there is a later
\* state where the window shows no run in progress and Run is enabled
C32_RunEnds ==
    \A p \in ProcIds :
        Alive(p) ~> (RunState(win) # "Running" /\ win.btn_run)

\* C32 happens: the process of a run has exited by itself with code 0, the
\* run is shown as finished and Run is enabled
C32_Witness ==
    /\ win.proc # None
    /\ procs[win.proc].state = "NotRunning"
    /\ ~procs[win.proc].crashed /\ ~procs[win.proc].killed
    /\ win.lbl_status = Status("Finished", 0)
    /\ win.btn_run

Trimmed(t) == t = <<>> \/ (t[1] \notin Whitespace /\ t[Len(t)] \notin Whitespace)

\* C34: a required text or path of blanks only is among the violations of the
\* validation, and the value passed after the flag of a text or a path is the
\* text without the blanks around it
C34_TextTrimmed ==
    \A i \in 1..Len(form) :
        form[i].widget.cls \in {"QLineEdit", "FilePicker"}
        => /\ (form[i].schema.required /\ form[i].widget.text # <<>> /\ Unset(form[i]))
              => \E k \in 1..Len(ValidateAndCollect(form)) :
                    ValidateAndCollect(form)[k] = form[i].schema.label
           /\ form[i].schema.key # <<>>
              => LET args == BuildCliArgs(form) IN
                 \A k \in Places(args, form[i].schema.key) :
                    /\ k < Len(args)
                    /\ Trimmed(args[k + 1])
                    /\ args[k + 1] = Strip(form[i].widget.text)

\* C34 happens: a required text holds a blank and is reported, a path holds
\* " 7 " and is passed as "7"
C34_Witness ==
    /\ Len(form) = 2
    /\ form[1].widget.cls = "QLineEdit" /\ form[1].schema.required
    /\ form[1].widget.text = <<" ">>
    /\ form[2].widget.cls = "FilePicker"
    /\ form[2].widget.text = <<" ", "7", " ">>
    /\ ValidateAndCollect(form) = <<"f1">>
    /\ BuildCliArgs(form) = <<K_a, <<>>, K_b, <<"7">>>>

C36_SetFromText ==
    [][ PasteFromLogSelection =>
            LET t == Strip(Head(SplitLines(win.txt_log))) IN
            \A i \in 1..Len(form) :
                  form'[i].widget # form[i].widget =>
                     LET w == form'[i].widget IN
                     CASE w.cls = "QSpinBox" -> IsNumber(t) /\ w.num = IntOf(t)
                       [] w.cls = "QDoubleSpinBox" -> IsNumber(t) /\ w.num = FloatOf(t)
                       [] w.cls = "QComboBox" -> TextValueOf(w) = t
                       [] w.cls \in {"QLineEdit", "FilePicker"} -> w.text = t
                       [] OTHER -> TRUE ]_vars

====
